---- MODULE Spec2Model ----
(***************************************************************************)
(* A model of the FDTD engine of src/src/simulator.ts: the field store,    *)
(* the six stencil kernels, the layout adapter copyScalarFieldReverse and  *)
(* the two half-steps stepElectric / stepMagnetic.                         *)
(*                                                                         *)
(* Numbers.  The program computes in floating point; the model computes    *)
(* the same expressions exactly, over the rationals.  A number is a pair   *)
(* <<n, d>> in lowest terms with d > 0.  Rounding, overflow and the        *)
(* non-finite values of a division by zero are outside the model.          *)
(*                                                                         *)
(* Arrays.  A JavaScript array of length n is a function with domain       *)
(* 0 .. n-1, so that indices are those of the source.                      *)
(***************************************************************************)
EXTENDS Integers, Sequences, FiniteSets, TLC

VARIABLES gridSize, cellSize, data, twin, factor, pre, calls, pokesLeft, stepsLeft

vars == <<gridSize, cellSize, data, twin, factor, pre, calls, pokesLeft, stepsLeft>>

(***************************************************************************)
(* Bounds of the model.                                                    *)
(***************************************************************************)
\* writes through getData() before stepping starts, and half-steps, in Spec
MaxPokes == 1
MaxSteps == 2
\* half-steps in SpecTime (two full cycles need four)
TimeSteps == 4
\* writes and half-steps in SpecFail
FailPokes == 1
FailSteps == 2
\* writes and half-steps in SpecOrder
OrderPokes == 1
OrderSteps == 2
\* writes and half-steps in SpecLin
LinPokes == 1
LinSteps == 2
\* writes and half-steps in SpecLocal
LocalPokes == 1
LocalSteps == 3

\* dt is n / 10 for n in DtNums: -0.1, 0.1
DtNums == {-1, 1}
\* dt in SpecTime: -0.1, 0, 0.2
TimeDtNums == {-1, 0, 2}
\* dt where one value is enough: 0.1
OneDt == {1}

\* constructor arguments tried: two usable shapes, one of them with three
\* different extents, and two shapes with a non-positive extent
GridShapes == {<<2, 2, 2>>, <<1, 2, 3>>, <<0, 2, 2>>, <<2, -1, 1>>}
CellSizes == {0, 1, 2}
\* the cells a caller writes (those of them the grid has) and the value
PokeCells == {<<0, 0, 0>>, <<0, 1, 1>>, <<0, 1, 2>>, <<1, 0, 1>>}
PokeVals == {5}
\* the 5x5x5 grid of SpecLocal: the cells and fields written, the value
LocalCells == {<<2, 2, 2>>, <<4, 4, 4>>, <<0, 2, 4>>}
LocalFields == {"electricFieldZ", "electricFieldX"}
LocalVals == {1}
\* the factors of SpecLin
Factors == {-2, 0, 3}
\* where the backend may throw in SpecFail: nowhere, or at kernel 1, 2 or 3
FailPoints == {0, 1, 2, 3}
\* where it may throw in SpecTime: nowhere, or at the last kernel
TimeFailPoints == {0, 3}

(***************************************************************************)
(* Exact rational arithmetic, standing for the source's number operators.  *)
(***************************************************************************)
Abs(n) == IF n < 0 THEN -n ELSE n

RECURSIVE GCD(_, _)
GCD(a, b) == IF b = 0 THEN a ELSE GCD(b, a % b)

\* the rational n/d (d # 0) in lowest terms with a positive denominator
Norm(n, d) ==
    LET g == GCD(Abs(n), Abs(d))
        s == IF d < 0 THEN -1 ELSE 1
    IN  <<(s * n) \div g, (s * d) \div g>>

Num(n) == <<n, 1>>
Zero == Num(0)
RAdd(a, b) == Norm(a[1] * b[2] + b[1] * a[2], a[2] * b[2])
RSub(a, b) == Norm(a[1] * b[2] - b[1] * a[2], a[2] * b[2])
RMul(a, b) == Norm(a[1] * b[1], a[2] * b[2])
\* a / b for b # 0
RDiv(a, b) == Norm(a[1] * b[2], a[2] * b[1])
RLeq(a, b) == a[1] * b[2] <= b[1] * a[2]

\* the number dt a caller passes: n tenths
Dt(n) == Norm(n, 10)

(***************************************************************************)
(* Arrays.                                                                 *)
(***************************************************************************)
\* Array.length
Length(a) == Cardinality(DOMAIN a)

\* makeField3D(shape, _ => v): every use in the source passes a constant getValue
makeField3D(shape, v) ==
    [x \in 0 .. shape[1] - 1 |->
        [y \in 0 .. shape[2] - 1 |->
            [z \in 0 .. shape[3] - 1 |-> v]]]

(***************************************************************************)
(* The execution backend.  A kernel created with output: [ox, oy, oz] runs *)
(* its function once per thread (x, y, z), x < ox, y < oy, z < oz, and     *)
(* returns the results as an array indexed [z][y][x]: axis z outermost.    *)
(* fn is the kernel function tabulated over the threads.                   *)
(***************************************************************************)
Threads(output) ==
    (0 .. output[1] - 1) \X (0 .. output[2] - 1) \X (0 .. output[3] - 1)

RunKernel(output, fn) ==
    [z \in 0 .. output[3] - 1 |->
        [y \in 0 .. output[2] - 1 |->
            [x \in 0 .. output[1] - 1 |-> fn[<<x, y, z>>]]]]

(***************************************************************************)
(* The layout adapter.                                                     *)
(***************************************************************************)
\* a wrong adapter: the copy without the exchange of the outer and inner axes
copyScalarFieldSameOrder(field) ==
    [x \in 0 .. Length(field) - 1 |->
        [y \in 0 .. Length(field[0]) - 1 |->
            [z \in 0 .. Length(field[0][0]) - 1 |-> field[x][y][z]]]]

\* newField has the extents of field reversed and newField[z][y][x] = field[x][y][z]
copyScalarFieldReverse(field) ==
    [x \in 0 .. Length(field[0][0]) - 1 |->
        [y \in 0 .. Length(field[0]) - 1 |->
            [z \in 0 .. Length(field) - 1 |-> field[z][y][x]]]]

(***************************************************************************)
(* The six stencil kernels.  Each ...Cell operator is the kernel function  *)
(* at thread (x, y, z); output is the kernel's output setting and cellSize *)
(* its constant.                                                           *)
(***************************************************************************)
\* a wrong kernel: an out-of-range neighbour taken as the cell itself, not as 0
updateMagneticXCellClamped(fieldY, fieldZ, magFieldX, dt, x, y, z, output, cs) ==
    LET v == IF y + 1 >= output[2] THEN fieldZ[x][y][z] ELSE fieldZ[x][y + 1][z]
        w == IF z + 1 >= output[3] THEN fieldY[x][y][z] ELSE fieldY[x][y][z + 1]
    IN  RSub(magFieldX[x][y][z],
             RDiv(RMul(dt, RSub(RSub(v, fieldZ[x][y][z]), RSub(w, fieldY[x][y][z]))),
                  Num(cs)))

updateMagneticXCell(fieldY, fieldZ, magFieldX, dt, x, y, z, output, cs) ==
    LET v == IF y + 1 >= output[2] THEN Zero ELSE fieldZ[x][y + 1][z]
        w == IF z + 1 >= output[3] THEN Zero ELSE fieldY[x][y][z + 1]
    IN  RSub(magFieldX[x][y][z],
             RDiv(RMul(dt, RSub(RSub(v, fieldZ[x][y][z]), RSub(w, fieldY[x][y][z]))),
                  Num(cs)))

updateMagneticYCell(fieldX, fieldZ, magFieldY, dt, x, y, z, output, cs) ==
    LET u == IF x + 1 >= output[1] THEN Zero ELSE fieldZ[x + 1][y][z]
        w == IF z + 1 >= output[3] THEN Zero ELSE fieldX[x][y][z + 1]
    IN  RSub(magFieldY[x][y][z],
             RDiv(RMul(dt, RSub(RSub(w, fieldX[x][y][z]), RSub(u, fieldZ[x][y][z]))),
                  Num(cs)))

updateMagneticZCell(fieldX, fieldY, magFieldZ, dt, x, y, z, output, cs) ==
    LET u == IF x + 1 >= output[1] THEN Zero ELSE fieldY[x + 1][y][z]
        v == IF y + 1 >= output[2] THEN Zero ELSE fieldX[x][y + 1][z]
    IN  RSub(magFieldZ[x][y][z],
             RDiv(RMul(dt, RSub(RSub(u, fieldY[x][y][z]), RSub(v, fieldX[x][y][z]))),
                  Num(cs)))

updateElectricXCell(fieldY, fieldZ, elFieldX, dt, x, y, z, output, cs) ==
    LET v == IF y - 1 < 0 THEN Zero ELSE fieldZ[x][y - 1][z]
        w == IF z - 1 < 0 THEN Zero ELSE fieldY[x][y][z - 1]
    IN  RAdd(elFieldX[x][y][z],
             RDiv(RMul(dt, RSub(RSub(fieldZ[x][y][z], v), RSub(fieldY[x][y][z], w))),
                  Num(cs)))

\* a wrong kernel: the neighbour below index 0 taken as 1, not as 0
updateElectricYCellUnitBoundary(fieldX, fieldZ, elFieldY, dt, x, y, z, output, cs) ==
    LET u == IF x - 1 < 0 THEN Num(1) ELSE fieldZ[x - 1][y][z]
        w == IF z - 1 < 0 THEN Num(1) ELSE fieldX[x][y][z - 1]
    IN  RAdd(elFieldY[x][y][z],
             RDiv(RMul(dt, RSub(RSub(fieldX[x][y][z], w), RSub(fieldZ[x][y][z], u))),
                  Num(cs)))

updateElectricYCell(fieldX, fieldZ, elFieldY, dt, x, y, z, output, cs) ==
    LET u == IF x - 1 < 0 THEN Zero ELSE fieldZ[x - 1][y][z]
        w == IF z - 1 < 0 THEN Zero ELSE fieldX[x][y][z - 1]
    IN  RAdd(elFieldY[x][y][z],
             RDiv(RMul(dt, RSub(RSub(fieldX[x][y][z], w), RSub(fieldZ[x][y][z], u))),
                  Num(cs)))

\* a wrong kernel: the forward differences of the magnetic kernels
updateElectricZCellForward(fieldX, fieldY, elFieldZ, dt, x, y, z, output, cs) ==
    LET u == IF x + 1 >= output[1] THEN Zero ELSE fieldY[x + 1][y][z]
        v == IF y + 1 >= output[2] THEN Zero ELSE fieldX[x][y + 1][z]
    IN  RAdd(elFieldZ[x][y][z],
             RDiv(RMul(dt, RSub(RSub(u, fieldY[x][y][z]), RSub(v, fieldX[x][y][z]))),
                  Num(cs)))

updateElectricZCell(fieldX, fieldY, elFieldZ, dt, x, y, z, output, cs) ==
    LET u == IF x - 1 < 0 THEN Zero ELSE fieldY[x - 1][y][z]
        v == IF y - 1 < 0 THEN Zero ELSE fieldX[x][y - 1][z]
    IN  RAdd(elFieldZ[x][y][z],
             RDiv(RMul(dt, RSub(RSub(fieldY[x][y][z], u), RSub(fieldX[x][y][z], v))),
                  Num(cs)))

\* the kernels as the constructor creates them: each run over output: gridSize
updateMagneticX(fieldY, fieldZ, magFieldX, dt, output, cs) ==
    RunKernel(output, [t \in Threads(output) |->
        updateMagneticXCell(fieldY, fieldZ, magFieldX, dt, t[1], t[2], t[3], output, cs)])

updateMagneticY(fieldX, fieldZ, magFieldY, dt, output, cs) ==
    RunKernel(output, [t \in Threads(output) |->
        updateMagneticYCell(fieldX, fieldZ, magFieldY, dt, t[1], t[2], t[3], output, cs)])

updateMagneticZ(fieldX, fieldY, magFieldZ, dt, output, cs) ==
    RunKernel(output, [t \in Threads(output) |->
        updateMagneticZCell(fieldX, fieldY, magFieldZ, dt, t[1], t[2], t[3], output, cs)])

updateElectricX(fieldY, fieldZ, elFieldX, dt, output, cs) ==
    RunKernel(output, [t \in Threads(output) |->
        updateElectricXCell(fieldY, fieldZ, elFieldX, dt, t[1], t[2], t[3], output, cs)])

updateElectricY(fieldX, fieldZ, elFieldY, dt, output, cs) ==
    RunKernel(output, [t \in Threads(output) |->
        updateElectricYCell(fieldX, fieldZ, elFieldY, dt, t[1], t[2], t[3], output, cs)])

updateElectricZ(fieldX, fieldY, elFieldZ, dt, output, cs) ==
    RunKernel(output, [t \in Threads(output) |->
        updateElectricZCell(fieldX, fieldY, elFieldZ, dt, t[1], t[2], t[3], output, cs)])

(***************************************************************************)
(* The engine.  data is this.data; gridSize and cellSize are the           *)
(* constructor's arguments, which the kernels keep as output and constant. *)
(***************************************************************************)
FieldNames ==
    {"electricFieldX", "electricFieldY", "electricFieldZ",
     "magneticFieldX", "magneticFieldY", "magneticFieldZ"}

\* this.data as the constructor leaves it; the constructor has no other exit
Constructor(gs, cs) ==
    [time |-> Zero,
     electricFieldX |-> makeField3D(gs, Zero),
     electricFieldY |-> makeField3D(gs, Zero),
     electricFieldZ |-> makeField3D(gs, Zero),
     magneticFieldX |-> makeField3D(gs, Zero),
     magneticFieldY |-> makeField3D(gs, Zero),
     magneticFieldZ |-> makeField3D(gs, Zero),
     permittivity |-> makeField3D(gs, Zero),
     permeability |-> makeField3D(gs, Zero)]

\* the three statements of stepElectric, each on the data the one before left
setElectricFieldX(d, dt, output, cs) ==
    [d EXCEPT !.electricFieldX = copyScalarFieldReverse(
        updateElectricX(d.magneticFieldY, d.magneticFieldZ, d.electricFieldX, dt, output, cs))]

\* a wrong statement: the kernel is handed the electric X field just stored
setElectricFieldYFromElectricX(d, dt, output, cs) ==
    [d EXCEPT !.electricFieldY = copyScalarFieldReverse(
        updateElectricY(d.electricFieldX, d.magneticFieldZ, d.electricFieldY, dt, output, cs))]

setElectricFieldY(d, dt, output, cs) ==
    [d EXCEPT !.electricFieldY = copyScalarFieldReverse(
        updateElectricY(d.magneticFieldX, d.magneticFieldZ, d.electricFieldY, dt, output, cs))]

setElectricFieldZ(d, dt, output, cs) ==
    [d EXCEPT !.electricFieldZ = copyScalarFieldReverse(
        updateElectricZ(d.magneticFieldX, d.magneticFieldY, d.electricFieldZ, dt, output, cs))]

\* the three statements of stepMagnetic
setMagneticFieldX(d, dt, output, cs) ==
    [d EXCEPT !.magneticFieldX = copyScalarFieldReverse(
        updateMagneticX(d.electricFieldY, d.electricFieldZ, d.magneticFieldX, dt, output, cs))]

setMagneticFieldY(d, dt, output, cs) ==
    [d EXCEPT !.magneticFieldY = copyScalarFieldReverse(
        updateMagneticY(d.electricFieldX, d.electricFieldZ, d.magneticFieldY, dt, output, cs))]

\* a wrong statement: the kernel is handed the electric Z field for the Y field
setMagneticFieldZFromElectricZ(d, dt, output, cs) ==
    [d EXCEPT !.magneticFieldZ = copyScalarFieldReverse(
        updateMagneticZ(d.electricFieldX, d.electricFieldZ, d.magneticFieldZ, dt, output, cs))]

setMagneticFieldZ(d, dt, output, cs) ==
    [d EXCEPT !.magneticFieldZ = copyScalarFieldReverse(
        updateMagneticZ(d.electricFieldX, d.electricFieldY, d.magneticFieldZ, dt, output, cs))]

\* wrong time advances: time -= dt / 2, and time += dt
advanceTimeBackwards(d, dt) == [d EXCEPT !.time = RSub(@, RDiv(dt, Num(2)))]
advanceTimeWholeStep(d, dt) == [d EXCEPT !.time = RAdd(@, dt)]

\* this.data.time += dt / 2
advanceTime(d, dt) == [d EXCEPT !.time = RAdd(@, RDiv(dt, Num(2)))]

(***************************************************************************)
(* A half-step.  fail is the kernel invocation (1, 2, 3) at which the      *)
(* backend throws, 0 when it does not: the exception leaves the handler,   *)
(* which has no try or catch, so the statements before it have taken       *)
(* effect and the ones after it, time += dt / 2 included, have not.        *)
(***************************************************************************)
stepElectric(d, dt, output, cs, fail) ==
    LET d1 == IF fail = 1 THEN d ELSE setElectricFieldX(d, dt, output, cs)
        d2 == IF fail \in {1, 2} THEN d1 ELSE setElectricFieldY(d1, dt, output, cs)
        d3 == IF fail \in {1, 2, 3} THEN d2 ELSE setElectricFieldZ(d2, dt, output, cs)
    IN  IF fail = 0 THEN advanceTime(d3, dt) ELSE d3

stepMagnetic(d, dt, output, cs, fail) ==
    LET d1 == IF fail = 1 THEN d ELSE setMagneticFieldX(d, dt, output, cs)
        d2 == IF fail \in {1, 2} THEN d1 ELSE setMagneticFieldY(d1, dt, output, cs)
        d3 == IF fail \in {1, 2, 3} THEN d2 ELSE setMagneticFieldZ(d2, dt, output, cs)
    IN  IF fail = 0 THEN advanceTime(d3, dt) ELSE d3

\* getData() hands out this.data itself: a caller's write to a cell of it
getDataWrite(d, f, c, v) == [d EXCEPT ![f][c[1]][c[2]][c[3]] = v]

(***************************************************************************)
(* State.                                                                  *)
(*   data       this.data of the engine                                    *)
(*   twin       << >>, or <<d>>: this.data of a second engine built with   *)
(*              the same arguments, written with factor times the values   *)
(*              and stepped with the same calls                            *)
(*   pre        data as it was when the last half-step was called          *)
(*   calls      the half-steps called so far: [op, dt, fail]               *)
(*   pokesLeft, stepsLeft   what the bounds still allow                    *)
(***************************************************************************)
\* the configurations on which a kernel run is defined in the model: the
\* backend has threads to run and the division by cellSize stays finite
Usable ==
    /\ \A i \in 1 .. 3 : gridSize[i] > 0
    /\ cellSize # 0

Start(gs, cs, twins, k, pokes, steps) ==
    /\ gridSize = gs
    /\ cellSize = cs
    /\ data = Constructor(gs, cs)
    /\ twin = [i \in 1 .. twins |-> Constructor(gs, cs)]
    /\ factor = k
    /\ pre = data
    /\ calls = << >>
    /\ pokesLeft = pokes
    /\ stepsLeft = steps

Init ==
    \E gs \in GridShapes, cs \in CellSizes : Start(gs, cs, 0, 1, MaxPokes, MaxSteps)

\* a caller writes v into cell c of field f before it starts stepping
Poke(f, c, v) ==
    /\ pokesLeft > 0
    /\ calls = << >>
    /\ c \in Threads(gridSize)
    /\ data' = getDataWrite(data, f, c, Num(v))
    /\ twin' = [i \in DOMAIN twin |-> getDataWrite(twin[i], f, c, Num(factor * v))]
    /\ pre' = data'
    /\ pokesLeft' = pokesLeft - 1
    /\ UNCHANGED <<gridSize, cellSize, factor, calls, stepsLeft>>

StepElectric(n, fail) ==
    /\ stepsLeft > 0
    /\ Usable
    /\ data' = stepElectric(data, Dt(n), gridSize, cellSize, fail)
    /\ twin' = [i \in DOMAIN twin |-> stepElectric(twin[i], Dt(n), gridSize, cellSize, fail)]
    /\ pre' = data
    /\ calls' = Append(calls, [op |-> "stepElectric", dt |-> n, fail |-> fail])
    /\ stepsLeft' = stepsLeft - 1
    /\ UNCHANGED <<gridSize, cellSize, factor, pokesLeft>>

StepMagnetic(n, fail) ==
    /\ stepsLeft > 0
    /\ Usable
    /\ data' = stepMagnetic(data, Dt(n), gridSize, cellSize, fail)
    /\ twin' = [i \in DOMAIN twin |-> stepMagnetic(twin[i], Dt(n), gridSize, cellSize, fail)]
    /\ pre' = data
    /\ calls' = Append(calls, [op |-> "stepMagnetic", dt |-> n, fail |-> fail])
    /\ stepsLeft' = stepsLeft - 1
    /\ UNCHANGED <<gridSize, cellSize, factor, pokesLeft>>

\* the calls a caller makes: writes of vals to cells of fields, and
\* half-steps with dt in dts during which the backend throws as in fails
Moves(fields, cells, vals, dts, fails) ==
    \/ \E f \in fields, c \in cells, v \in vals : Poke(f, c, v)
    \/ \E n \in dts, fail \in fails : StepElectric(n, fail)
    \/ \E n \in dts, fail \in fails : StepMagnetic(n, fail)

Next == Moves(FieldNames, PokeCells, PokeVals, DtNums, {0})

Spec == Init /\ [][Next]_vars

\* half-steps alone, on one freshly constructed engine
InitTime == Start(<<1, 1, 2>>, 1, 0, 1, 0, TimeSteps)

NextTime ==
    \/ \E n \in TimeDtNums, fail \in TimeFailPoints : StepElectric(n, fail)
    \/ \E n \in TimeDtNums, fail \in TimeFailPoints : StepMagnetic(n, fail)

SpecTime == InitTime /\ [][NextTime]_vars

\* a backend that may throw
InitFail == \E cs \in {1, 2} : Start(<<2, 2, 2>>, cs, 0, 1, FailPokes, FailSteps)

NextFail == Moves(FieldNames, PokeCells, PokeVals, OneDt, FailPoints)

SpecFail == InitFail /\ [][NextFail]_vars

\* one usable engine, for the order of the statements of a half-step
InitOrder == Start(<<2, 2, 2>>, 2, 0, 1, OrderPokes, OrderSteps)

NextOrder == Moves(FieldNames, PokeCells, PokeVals, OneDt, {0})

SpecOrder == InitOrder /\ [][NextOrder]_vars

\* two engines, the second written with factor times the values of the first
InitLin ==
    \E gs \in {<<2, 2, 2>>, <<1, 2, 3>>}, k \in Factors : Start(gs, 2, 1, k, LinPokes, LinSteps)

NextLin == Moves(FieldNames, PokeCells, PokeVals, OneDt, {0})

SpecLin == InitLin /\ [][NextLin]_vars

\* the 5x5x5 grid
InitLocal == Start(<<5, 5, 5>>, 1, 0, 1, LocalPokes, LocalSteps)

NextLocal == Moves(LocalFields, LocalCells, LocalVals, OneDt, {0})

SpecLocal == InitLocal /\ [][NextLocal]_vars

(***************************************************************************)
(* Vocabulary of the claims.                                               *)
(***************************************************************************)
LastCall == calls[Len(calls)]
Stepped(op) == calls # << >> /\ LastCall.op = op /\ LastCall.fail = 0
PositiveShape == \A i \in 1 .. 3 : gridSize[i] > 0
AllFields == FieldNames \cup {"permittivity", "permeability"}

\* field f has outer length Nx, middle length Ny and inner length Nz
HasShape(f, shape) ==
    /\ Length(f) = shape[1]
    /\ \A x \in DOMAIN f :
        /\ Length(f[x]) = shape[2]
        /\ \A y \in DOMAIN f[x] : Length(f[x][y]) = shape[3]

\* the value of field f at (x, y, z), 0 outside the grid
At(f, x, y, z) ==
    IF <<x, y, z>> \in Threads(gridSize) THEN f[x][y][z] ELSE Zero

\* the update equations as the specification writes them, r = dt / cellSize
EqHx(d, r, x, y, z) ==
    RSub(d.magneticFieldX[x][y][z],
         RMul(r, RSub(RSub(At(d.electricFieldZ, x, y + 1, z), d.electricFieldZ[x][y][z]),
                      RSub(At(d.electricFieldY, x, y, z + 1), d.electricFieldY[x][y][z]))))
EqHy(d, r, x, y, z) ==
    RSub(d.magneticFieldY[x][y][z],
         RMul(r, RSub(RSub(At(d.electricFieldX, x, y, z + 1), d.electricFieldX[x][y][z]),
                      RSub(At(d.electricFieldZ, x + 1, y, z), d.electricFieldZ[x][y][z]))))
EqHz(d, r, x, y, z) ==
    RSub(d.magneticFieldZ[x][y][z],
         RMul(r, RSub(RSub(At(d.electricFieldY, x + 1, y, z), d.electricFieldY[x][y][z]),
                      RSub(At(d.electricFieldX, x, y + 1, z), d.electricFieldX[x][y][z]))))
EqEx(d, r, x, y, z) ==
    RAdd(d.electricFieldX[x][y][z],
         RMul(r, RSub(RSub(d.magneticFieldZ[x][y][z], At(d.magneticFieldZ, x, y - 1, z)),
                      RSub(d.magneticFieldY[x][y][z], At(d.magneticFieldY, x, y, z - 1)))))
EqEy(d, r, x, y, z) ==
    RAdd(d.electricFieldY[x][y][z],
         RMul(r, RSub(RSub(d.magneticFieldX[x][y][z], At(d.magneticFieldX, x, y, z - 1)),
                      RSub(d.magneticFieldZ[x][y][z], At(d.magneticFieldZ, x - 1, y, z)))))
EqEz(d, r, x, y, z) ==
    RAdd(d.electricFieldZ[x][y][z],
         RMul(r, RSub(RSub(d.magneticFieldY[x][y][z], At(d.magneticFieldY, x - 1, y, z)),
                      RSub(d.magneticFieldX[x][y][z], At(d.magneticFieldX, x, y - 1, z)))))

(***************************************************************************)
(* C1.                                                                     *)
(***************************************************************************)
\* C1: an engine in its constructed state (zero-filled fields, time = 0)
\* exists only for a grid size with three positive extents and a positive
\* cell size; any other arguments are rejected by the constructor.
C1_BadArgumentsRejected ==
    data = Constructor(gridSize, cellSize) => (PositiveShape /\ cellSize > 0)

(***************************************************************************)
(* C3.                                                                     *)
(***************************************************************************)
\* grid (2,2,2), cellSize 1, Ez[0][1][1] = 5 and all else zero, then one
\* stepMagnetic(0.1)
C3_Scenario ==
    /\ gridSize = <<2, 2, 2>>
    /\ cellSize = 1
    /\ pre = getDataWrite(Constructor(gridSize, cellSize), "electricFieldZ", <<0, 1, 1>>, Num(5))
    /\ calls = <<[op |-> "stepMagnetic", dt |-> 1, fail |-> 0]>>

\* C3 as claimed: in the scenario Hx[0][0][1] is 0.5.
C3_Original ==
    C3_Scenario => data.magneticFieldX[0][0][1] = <<1, 2>>

\* C3 as amended: in the scenario Hx[0][1][1], the cell whose y+1 neighbour is
\* out of range and taken as 0, is 0.5 = 0 - 0.1*((0 - 5) - (0 - 0))/1, and
\* Hx[0][0][1], whose y+1 neighbour is the cell holding 5, is -0.5.
C3_BoundaryTruncation ==
    C3_Scenario =>
        /\ data.magneticFieldX[0][1][1] = <<1, 2>>
        /\ data.magneticFieldX[0][0][1] = <<-1, 2>>

C3_Witness == C3_Scenario /\ data.magneticFieldX[0][1][1] # Zero

(***************************************************************************)
(* C5.                                                                     *)
(***************************************************************************)
\* C5: for every grid shape with positive extents, after any sequence of
\* half-steps each of the eight fields has outer length Nx, middle length Ny
\* and inner length Nz.
C5_ShapeInvariance ==
    PositiveShape => \A f \in AllFields : HasShape(data[f], gridSize)

C5_Witness ==
    /\ gridSize = <<1, 2, 3>>
    /\ \E i, j \in DOMAIN calls : calls[i].op = "stepElectric" /\ calls[j].op = "stepMagnetic"
    /\ data.magneticFieldX # pre.magneticFieldX

(***************************************************************************)
(* C9.                                                                     *)
(***************************************************************************)
C9_Ratio == RDiv(Dt(LastCall.dt), Num(cellSize))

C9_Kept(names) == \A f \in names : data[f] = pre[f]

\* C9: after a half-step every cell [x][y][z] of each stepped component holds
\* the specification's stencil formula evaluated on the pre-step state at
\* (x, y, z), and the other family, permittivity and permeability are as
\* before.
C9_StencilAtSamePosition ==
    /\ Stepped("stepMagnetic") =>
        /\ \A f \in {"magneticFieldX", "magneticFieldY", "magneticFieldZ"} :
                HasShape(data[f], gridSize)
        /\ \A t \in Threads(gridSize) :
            /\ data.magneticFieldX[t[1]][t[2]][t[3]] = EqHx(pre, C9_Ratio, t[1], t[2], t[3])
            /\ data.magneticFieldY[t[1]][t[2]][t[3]] = EqHy(pre, C9_Ratio, t[1], t[2], t[3])
            /\ data.magneticFieldZ[t[1]][t[2]][t[3]] = EqHz(pre, C9_Ratio, t[1], t[2], t[3])
        /\ C9_Kept({"electricFieldX", "electricFieldY", "electricFieldZ",
                    "permittivity", "permeability"})
    /\ Stepped("stepElectric") =>
        /\ \A f \in {"electricFieldX", "electricFieldY", "electricFieldZ"} :
                HasShape(data[f], gridSize)
        /\ \A t \in Threads(gridSize) :
            /\ data.electricFieldX[t[1]][t[2]][t[3]] = EqEx(pre, C9_Ratio, t[1], t[2], t[3])
            /\ data.electricFieldY[t[1]][t[2]][t[3]] = EqEy(pre, C9_Ratio, t[1], t[2], t[3])
            /\ data.electricFieldZ[t[1]][t[2]][t[3]] = EqEz(pre, C9_Ratio, t[1], t[2], t[3])
        /\ C9_Kept({"magneticFieldX", "magneticFieldY", "magneticFieldZ",
                    "permittivity", "permeability"})

\* a half-step on a grid with three different extents that changed a cell
\* whose stencil reads an in-range neighbour
C9_Witness ==
    /\ gridSize = <<1, 2, 3>>
    /\ Stepped("stepElectric")
    /\ Len(calls) = 2
    /\ calls[1].op = "stepMagnetic"
    /\ data.electricFieldZ # pre.electricFieldZ
    /\ data.electricFieldX[0][1][2] # pre.electricFieldX[0][1][2]

(***************************************************************************)
(* C10.                                                                    *)
(***************************************************************************)
Orders == {<<1, 2, 3>>, <<1, 3, 2>>, <<2, 1, 3>>, <<2, 3, 1>>, <<3, 1, 2>>, <<3, 2, 1>>}

\* statement k of the half-step op on d
Statement(op, k, d, dt) ==
    IF op = "stepElectric"
    THEN CASE k = 1 -> setElectricFieldX(d, dt, gridSize, cellSize)
           [] k = 2 -> setElectricFieldY(d, dt, gridSize, cellSize)
           [] k = 3 -> setElectricFieldZ(d, dt, gridSize, cellSize)
    ELSE CASE k = 1 -> setMagneticFieldX(d, dt, gridSize, cellSize)
           [] k = 2 -> setMagneticFieldY(d, dt, gridSize, cellSize)
           [] k = 3 -> setMagneticFieldZ(d, dt, gridSize, cellSize)

\* the three component updates run in order o, then the time advance
InOrder(op, o, d, dt) ==
    advanceTime(Statement(op, o[3], Statement(op, o[2], Statement(op, o[1], d, dt), dt), dt), dt)

\* the three component updates each computed from d itself
AtOnce(op, d, dt) ==
    LET X == Statement(op, 1, d, dt)
        Y == Statement(op, 2, d, dt)
        Z == Statement(op, 3, d, dt)
    IN  IF op = "stepElectric"
        THEN advanceTime([d EXCEPT !.electricFieldX = X.electricFieldX,
                                   !.electricFieldY = Y.electricFieldY,
                                   !.electricFieldZ = Z.electricFieldZ], dt)
        ELSE advanceTime([d EXCEPT !.magneticFieldX = X.magneticFieldX,
                                   !.magneticFieldY = Y.magneticFieldY,
                                   !.magneticFieldZ = Z.magneticFieldZ], dt)

\* C10: the state after a half-step is the one every order of its three
\* component updates yields, and the one obtained by computing all three
\* from the pre-step snapshot.
C10_OrderIndependence ==
    (calls # << >> /\ LastCall.fail = 0) =>
        /\ data = AtOnce(LastCall.op, pre, Dt(LastCall.dt))
        /\ \A o \in Orders : data = InOrder(LastCall.op, o, pre, Dt(LastCall.dt))

\* a half-step that changed at least two components of the stepped family
C10_Witness ==
    /\ Stepped("stepElectric")
    /\ data.electricFieldX # pre.electricFieldX
    /\ data.electricFieldY # pre.electricFieldY

(***************************************************************************)
(* C2.                                                                     *)
(***************************************************************************)
Family(op, d) ==
    IF op = "stepElectric"
    THEN <<d.electricFieldX, d.electricFieldY, d.electricFieldZ>>
    ELSE <<d.magneticFieldX, d.magneticFieldY, d.magneticFieldZ>>

\* the half-step of the last call, had the backend not thrown
Completed ==
    IF LastCall.op = "stepElectric"
    THEN stepElectric(pre, Dt(LastCall.dt), gridSize, cellSize, 0)
    ELSE stepMagnetic(pre, Dt(LastCall.dt), gridSize, cellSize, 0)

\* C2: after a half-step in which the backend threw, it is never the case
\* that one component of the stepped family holds its new value while
\* another, which the half-step would have changed, still holds its
\* pre-step value.
C2_NoPartialUpdate ==
    (calls # << >> /\ LastCall.fail # 0) =>
        ~ \E i, j \in 1 .. 3 :
            /\ Family(LastCall.op, data)[i] # Family(LastCall.op, pre)[i]
            /\ Family(LastCall.op, data)[i] = Family(LastCall.op, Completed)[i]
            /\ Family(LastCall.op, data)[j] = Family(LastCall.op, pre)[j]
            /\ Family(LastCall.op, data)[j] # Family(LastCall.op, Completed)[j]

(***************************************************************************)
(* C4.                                                                     *)
(***************************************************************************)
\* 5x5x5 grid, cellSize 1, Ez[2][2][2] = 1 and all else zero, then one
\* stepMagnetic(0.1)
C4_Scenario ==
    /\ gridSize = <<5, 5, 5>>
    /\ cellSize = 1
    /\ pre = getDataWrite(Constructor(gridSize, cellSize), "electricFieldZ", <<2, 2, 2>>, Num(1))
    /\ calls = <<[op |-> "stepMagnetic", dt |-> 1, fail |-> 0]>>

\* C4: in the scenario every Hz cell is zero, the non-zero Hx cells are
\* (2,2,2) and (2,1,2), the non-zero Hy cells are (2,2,2) and (1,2,2), and
\* the E fields are unchanged.
C4_StencilLocality ==
    C4_Scenario =>
        /\ \A t \in Threads(gridSize) :
            /\ data.magneticFieldZ[t[1]][t[2]][t[3]] = Zero
            /\ data.magneticFieldX[t[1]][t[2]][t[3]] # Zero <=> t \in {<<2, 2, 2>>, <<2, 1, 2>>}
            /\ data.magneticFieldY[t[1]][t[2]][t[3]] # Zero <=> t \in {<<2, 2, 2>>, <<1, 2, 2>>}
        /\ \A f \in {"electricFieldX", "electricFieldY", "electricFieldZ"} : data[f] = pre[f]

C4_Witness == C4_Scenario /\ data.magneticFieldX[2][1][2] = <<-1, 10>>

(***************************************************************************)
(* C6.                                                                     *)
(***************************************************************************)
\* C6 as claimed: whatever dt a half-step is called with, time after the
\* call is at least time before it.
C6_Original ==
    calls # << >> => RLeq(pre.time, data.time)

\* C6 as amended: after a half-step called with dt >= 0, time is at least
\* what it was before the call.
C6_TimeMonotoneForNonNegativeDt ==
    (calls # << >> /\ LastCall.dt >= 0) => RLeq(pre.time, data.time)

\* a completed half-step with dt > 0 after one with dt = 0
C6_Witness ==
    /\ Len(calls) >= 2
    /\ LastCall.dt > 0
    /\ LastCall.fail = 0
    /\ calls[Len(calls) - 1].dt = 0
    /\ data.time # pre.time

(***************************************************************************)
(* C7.                                                                     *)
(***************************************************************************)
\* the calls so far are k full cycles with one dt, none of them failing
FullCycles ==
    /\ Len(calls) % 2 = 0
    /\ \A i \in DOMAIN calls :
        /\ calls[i].op = (IF i % 2 = 1 THEN "stepElectric" ELSE "stepMagnetic")
        /\ calls[i].dt = calls[1].dt
        /\ calls[i].fail = 0

\* C7: after k full cycles with step size dt on a fresh engine time is k*dt;
\* a half-step that completes advances time by exactly dt/2, and one that
\* does not complete leaves time as it was.
C7_TimeAccounting ==
    /\ (calls # << >> /\ FullCycles) =>
            data.time = RMul(Num(Len(calls) \div 2), Dt(calls[1].dt))
    /\ (calls # << >> /\ LastCall.fail = 0) =>
            data.time = RAdd(pre.time, RDiv(Dt(LastCall.dt), Num(2)))
    /\ (calls # << >> /\ LastCall.fail # 0) => data.time = pre.time

\* two full cycles with dt = 0.2
C7_Witness ==
    /\ Len(calls) = 4
    /\ FullCycles
    /\ calls[1].dt = 2
    /\ data.time = <<2, 5>>

(***************************************************************************)
(* C8.                                                                     *)
(***************************************************************************)
\* C8: an engine whose initial fields are factor times those of another, run
\* through the same half-steps, holds in every cell of every E and H field
\* factor times the other's value.
C8_Linearity ==
    \A i \in DOMAIN twin : \A f \in FieldNames : \A t \in Threads(gridSize) :
        twin[i][f][t[1]][t[2]][t[3]] = RMul(Num(factor), data[f][t[1]][t[2]][t[3]])

\* two completed half-steps of both families from non-zero fields, with a
\* factor other than 0 and 1
C8_Witness ==
    /\ Len(twin) = 1
    /\ factor = 3
    /\ Len(calls) = 2
    /\ calls[1].op # calls[2].op
    /\ data.electricFieldX # pre.electricFieldX
    /\ twin[1].electricFieldX # data.electricFieldX

====
